---- MODULE Spec2Model ----
(***************************************************************************)
(* A model of the MongoDB-backed gorilla/sessions store.                   *)
(*                                                                         *)
(* The store keeps one document per session in a collection, hands the     *)
(* client the codec-encoded session identifier as a cookie, and rebuilds   *)
(* the session from that cookie on later requests.                         *)
(*                                                                         *)
(* Collaborators are modelled by what the store relies on:                 *)
(*  - a securecookie codec is a pair (key, maxLength): Encode fails when   *)
(*    the payload is longer than maxLength, Decode succeeds only on a      *)
(*    token made with the same key, for the same name and holding a        *)
(*    payload of the destination's type;                                   *)
(*  - an identifier string is (oid, form): ObjectIDFromHex accepts the     *)
(*    lower and upper case spellings of an oid and rejects the rest;       *)
(*  - a collection operation either fails as a whole (dbFail) and changes  *)
(*    nothing, or is applied atomically to one document;                   *)
(*  - http.SetCookie adds one Set-Cookie header; session names are valid   *)
(*    cookie names;                                                        *)
(*  - durations are in milliseconds.                                       *)
(*                                                                         *)
(* A Save with MaxAge > 0 takes two steps, split at its UpdateOne: the     *)
(* update document, with its time stamp, is built before the collection    *)
(* applies it. New and the terminating Save take one step each, at their   *)
(* one collection operation.                                               *)
(*                                                                         *)
(* Five specifications share the actions: Spec serves one request at a     *)
(* time with every input a handler or a client can give; SpecCtor calls    *)
(* NewMongoDBStore with every combination of arguments; SpecTTL lets the   *)
(* clock advance and the collection's TTL monitor remove what its index    *)
(* makes due; SpecConc serves two requests of one client concurrently;     *)
(* SpecLogout serves two such requests that may end the session.           *)
(***************************************************************************)
EXTENDS Integers, Sequences, FiniteSets, TLC

VARIABLES
    db,        \* the collection: oid -> [data, last_modified]
    index,     \* the collection's TTL index: <<>> or <<index model>>
    store,     \* the *MongoDBStore construction returned: <<>> (nil) or <<s>>
    built,     \* the last NewMongoDBStore call, <<[args, err]>>; <<>> before the first
    gen,       \* ObjectIDs handed out by primitive.NewObjectID so far
    now,       \* the wall clock, time.Now()
    pc,        \* per request: "idle" | "handler" | "saving"
    sess,      \* per request: the *sessions.Session the handler holds
    w,         \* per request: the Set-Cookie headers of its ResponseWriter
    pending,   \* per request: the UpdateOne a Save has built and not yet run
    jar,       \* the values of the SessionName cookie the store has sent to clients
    ret        \* the call of New or Save that returned in the last step, if any

vars == <<db, index, store, built, gen, now, pc, sess, w, pending, jar, ret>>

---------------------------------------------------------------------------
\* Bounds of the model.

\* primitive.NewObjectID is called at most MaxGen times in a behaviour.
MaxGen == 2
\* A ResponseWriter takes at most MaxCookies Set-Cookie headers.
MaxCookies == 1
\* The clock advances at most MaxTicks times, half a second each time.
MaxTicks == 4

\* The requests being served; each has its own session and ResponseWriter.
Reqs == {"r1"}

\* One second, in the model's unit of time.Duration (milliseconds).
Second == 1000

---------------------------------------------------------------------------
\* Errors. InvalidTTLErr carries the offending duration.

Err(kind) == [kind |-> kind, invalidTTL |-> 0]
NilErr == Err("nil")
NewInvalidTTLErr(ttl) == [kind |-> "InvalidTTLErr", invalidTTL |-> ttl]

ErrInvalidHex == Err("ErrInvalidHex")
ErrNoDocuments == Err("ErrNoDocuments")
ErrNoCodecs == Err("securecookie: no codecs provided")
ErrEncode == Err("securecookie: the value is too long")
ErrDecode == Err("securecookie: the value is not valid")
ErrDB == Err("mongo: operation failed")
ErrPing == Err("mongo: ping failed")
ErrIndex == Err("mongo: create index failed")

---------------------------------------------------------------------------
\* Identifier strings and primitive.ObjectID.

\* oid.Hex(): the lower-case spelling.
Hex(oid) == [oid |-> oid, form |-> "lower"]
\* The same 24 digits in upper case.
UpperHex(oid) == [oid |-> oid, form |-> "upper"]
\* The empty string, a session without identifier.
EmptyID == [oid |-> 0, form |-> "empty"]
\* A string that is no 24-digit hex number ("abcdee").
BadID == [oid |-> 0, form |-> "malformed"]

\* primitive.ObjectIDFromHex: case-insensitive, fails on the rest.
ObjectIDFromHex(s) ==
    IF s.form \in {"lower", "upper"}
    THEN [err |-> NilErr, oid |-> s.oid]
    ELSE [err |-> ErrInvalidHex, oid |-> 0]

\* The identifiers a handler may assign to sess.ID by hand once n ObjectIDs
\* exist: a malformed string, or the first of those ObjectIDs spelled in
\* upper case.
AppIDs(n) == {BadID} \cup {UpperHex(k) : k \in 1..n \cap {1}}

---------------------------------------------------------------------------
\* Session values, payloads, tokens and codecs.

\* The empty map of sessions.NewSession, and a map with entries.
EmptyValues == "{}"
Values == {EmptyValues, "{key:value}"}

IDPayload(id) == [kind |-> "id", id |-> id, values |-> EmptyValues]
ValuesPayload(v) == [kind |-> "values", id |-> EmptyID, values |-> v]

\* The serialized length of a payload: an empty map is shorter than an
\* identifier, a map with entries is longer.
PayloadLen(p) ==
    IF p.kind = "id" THEN 2
    ELSE IF p.values = EmptyValues THEN 1 ELSE 3

\* A string that is no codec's output: key "" matches no codec.
RawValue(text) ==
    [key |-> "", name |-> text, kind |-> "raw", id |-> EmptyID, values |-> EmptyValues]
\* The empty cookie value.
EmptyValue == RawValue("")
\* A cookie value made up by a client.
Forged == RawValue("forged")

\* Codec.Encode: the payload bound to the name under the codec's key.
Encode(codec, name, p) ==
    IF PayloadLen(p) > codec.maxLength
    THEN [err |-> ErrEncode, token |-> EmptyValue]
    ELSE [err |-> NilErr,
          token |-> [key |-> codec.key, name |-> name, kind |-> p.kind,
                     id |-> p.id, values |-> p.values]]

\* Codec.Decode into a destination of type dstKind.
Decode(codec, name, token, dstKind) ==
    IF /\ token.key = codec.key
       /\ token.name = name
       /\ token.kind = dstKind
       /\ PayloadLen(token) <= codec.maxLength
    THEN [err |-> NilErr,
          p |-> [kind |-> token.kind, id |-> token.id, values |-> token.values]]
    ELSE [err |-> ErrDecode, p |-> IDPayload(EmptyID)]

MinOf(S) == CHOOSE x \in S : \A y \in S : x <= y

\* securecookie.EncodeMulti: the first codec that encodes wins.
EncodeMulti(name, p, codecs) ==
    IF Len(codecs) = 0
    THEN [err |-> ErrNoCodecs, token |-> EmptyValue]
    ELSE LET ok == {i \in 1..Len(codecs) : Encode(codecs[i], name, p).err = NilErr}
         IN  IF ok = {}
             THEN [err |-> ErrEncode, token |-> EmptyValue]
             ELSE Encode(codecs[MinOf(ok)], name, p)

\* securecookie.DecodeMulti: the first codec that decodes wins.
DecodeMulti(name, token, dstKind, codecs) ==
    IF Len(codecs) = 0
    THEN [err |-> ErrNoCodecs, p |-> IDPayload(EmptyID)]
    ELSE LET ok == {i \in 1..Len(codecs) :
                        Decode(codecs[i], name, token, dstKind).err = NilErr}
         IN  IF ok = {}
             THEN [err |-> ErrDecode, p |-> IDPayload(EmptyID)]
             ELSE Decode(codecs[MinOf(ok)], name, token, dstKind)

---------------------------------------------------------------------------
\* Construction: Options.Validate, the TTL index, NewMongoDBStore.

\* Truncation toward zero, as Go converts a float64 to an integer.
TruncDiv(a, b) == IF a >= 0 THEN a \div b ELSE -((-a) \div b)

\* Duration.Seconds(): the whole seconds and the remaining fraction (in
\* milliseconds, with the sign of the duration) of the float64 it returns.
Seconds(d) == [whole |-> TruncDiv(d, Second), frac |-> d - TruncDiv(d, Second) * Second]

\* int(d.Seconds())
IntSeconds(d) == Seconds(d).whole

\* Validate with the comparison written < 0: a zero TTL passes.
Validate_AcceptsZero(o) ==
    IF Seconds(o.ttl).whole < 0 \/ Seconds(o.ttl).frac < 0
    THEN NewInvalidTTLErr(o.ttl)
    ELSE NilErr

\* Options.Validate: TTL.Seconds() <= 0 is an InvalidTTLErr.
Validate(o) ==
    IF \/ Seconds(o.ttl).whole < 0
       \/ Seconds(o.ttl).whole = 0 /\ Seconds(o.ttl).frac <= 0
    THEN NewInvalidTTLErr(o.ttl)
    ELSE NilErr

\* makeTTLIndexModel passing the duration in milliseconds.
makeTTLIndexModel_Milliseconds(ttl) == [key |-> "last_modified", expireAfterSeconds |-> ttl]

\* makeTTLIndexModel: ascending on last_modified, expiring after the TTL.
makeTTLIndexModel(ttl) == [key |-> "last_modified", expireAfterSeconds |-> IntSeconds(ttl)]

\* ensureConnection: the ping of the collection's client.
ensureConnection(pingOK) == IF pingOK THEN NilErr ELSE ErrPing

\* ensureTTLIndex reporting success when CreateOne failed.
ensureTTLIndex_DropsError(idx, ttl, indexOK) ==
    IF indexOK
    THEN [err |-> NilErr, index |-> <<makeTTLIndexModel(ttl)>>]
    ELSE [err |-> NilErr, index |-> idx]

\* ensureTTLIndex: Indexes().CreateOne; the index exists afterwards or the
\* call failed and the collection's indexes are as before.
ensureTTLIndex(idx, ttl, indexOK) ==
    IF indexOK
    THEN [err |-> NilErr, index |-> <<makeTTLIndexModel(ttl)>>]
    ELSE [err |-> ErrIndex, index |-> idx]

\* The synthesized options taking the duration itself for MaxAge.
DefaultSessionOptions_RawDuration(ttl) == [path |-> "/", maxAge |-> ttl]

\* The options synthesized when sessionOptions is nil.
DefaultSessionOptions(ttl) == [path |-> "/", maxAge |-> IntSeconds(ttl)]

\* NewMongoDBStore. a.sessionOptions is <<>> for nil, <<o>> for a pointer.
NewMongoDBStore(a, idx) ==
    IF ensureConnection(a.pingOK) # NilErr
    THEN [store |-> <<>>, err |-> ensureConnection(a.pingOK), index |-> idx]
    ELSE IF Validate(a) # NilErr
    THEN [store |-> <<>>, err |-> Validate(a), index |-> idx]
    ELSE LET ix == IF a.ensureTTLIndex
                   THEN ensureTTLIndex(idx, a.ttl, a.indexOK)
                   ELSE [err |-> NilErr, index |-> idx]
             opts == IF a.sessionOptions = <<>>
                     THEN DefaultSessionOptions(a.ttl)
                     ELSE a.sessionOptions[1]
         IN  IF ix.err # NilErr
             THEN [store |-> <<>>, err |-> ix.err, index |-> ix.index]
             ELSE [store |-> <<[codecs |-> a.codecs,
                                ttl |-> a.ttl,
                                ensureTTLIndex |-> a.ensureTTLIndex,
                                defaultOptions |-> opts]>>,
                   err |-> NilErr,
                   index |-> ix.index]

---------------------------------------------------------------------------
\* The collection.

NoDoc == [data |-> EmptyValue, last_modified |-> 0]

\* collection.FindOne(_id = oid).Decode(&s)
FindOne(database, oid, dbFail) ==
    IF dbFail THEN [err |-> ErrDB, doc |-> NoDoc]
    ELSE IF oid \notin DOMAIN database THEN [err |-> ErrNoDocuments, doc |-> NoDoc]
    ELSE [err |-> NilErr, doc |-> database[oid]]

\* UpdateOne with an empty filter: the first document of the collection is
\* the one updated, whatever its _id.
UpdateOne_NoFilter(database, oid, update, dbFail) ==
    IF dbFail THEN [err |-> ErrDB, db |-> database]
    ELSE IF DOMAIN database = {}
    THEN [err |-> NilErr, db |-> [o \in {oid} |-> update]]
    ELSE [err |-> NilErr,
          db |-> [o \in DOMAIN database |->
                     IF o = MinOf(DOMAIN database) THEN update ELSE database[o]]]

\* UpdateOne writing the data only when it inserts the document, and only
\* the time stamp when the document exists.
UpdateOne_DataOnInsert(database, oid, update, dbFail) ==
    IF dbFail THEN [err |-> ErrDB, db |-> database]
    ELSE [err |-> NilErr,
          db |-> [o \in DOMAIN database \cup {oid} |->
                     IF o # oid THEN database[o]
                     ELSE IF oid \in DOMAIN database
                          THEN [update EXCEPT !.data = database[oid].data]
                          ELSE update]]

\* UpdateOne without the upsert option: no matching document, no write.
UpdateOne_NoUpsert(database, oid, update, dbFail) ==
    IF dbFail THEN [err |-> ErrDB, db |-> database]
    ELSE [err |-> NilErr,
          db |-> [o \in DOMAIN database |->
                     IF o = oid THEN update ELSE database[o]]]

\* collection.UpdateOne(_id = oid, $set update, upsert)
UpdateOne(database, oid, update, dbFail) ==
    IF dbFail THEN [err |-> ErrDB, db |-> database]
    ELSE [err |-> NilErr,
          db |-> [o \in DOMAIN database \cup {oid} |->
                     IF o = oid THEN update ELSE database[o]]]

\* collection.FindOneAndDelete(_id = oid).Err()
FindOneAndDelete(database, oid, dbFail) ==
    IF dbFail THEN [err |-> ErrDB, db |-> database]
    ELSE IF oid \notin DOMAIN database THEN [err |-> ErrNoDocuments, db |-> database]
    ELSE [err |-> NilErr, db |-> [o \in DOMAIN database \ {oid} |-> database[o]]]

---------------------------------------------------------------------------
\* Sessions and cookies.

\* sessions.NewSession(store, name): empty values, zero options of its own,
\* IsNew false.
NewSession(name) ==
    [name |-> name, id |-> EmptyID, values |-> EmptyValues,
     options |-> [path |-> "", maxAge |-> 0], optionsOf |-> "session",
     isNew |-> FALSE]

\* sessions.NewCookie(name, value, options)
NewCookie(name, value, options) == [name |-> name, value |-> value, options |-> options]

\* http.SetCookie(w, cookie): one more Set-Cookie header.
SetCookie(cookies, cookie) == Append(cookies, cookie)

\* derefOpts handing back the pointer it was given.
derefOpts_ReturnsArgument(opts) == [owner |-> "store", value |-> opts]

\* derefOpts: a pointer to a copy of the options pointed to. owner tells
\* whose Options object the pointer leads to: the session's own, or the
\* store's defaultOptions.
derefOpts(opts) ==
    [owner |-> "session", value |-> [path |-> opts.path, maxAge |-> opts.maxAge]]

\* sessionFromGorillaSession encoding sess.ID where it should encode
\* sess.Values.
sessionFromGorillaSession_EncodesID(s, codecs, t) ==
    LET o == ObjectIDFromHex(s.id)
        e == EncodeMulti(s.name, IDPayload(s.id), codecs)
        none == [ID |-> 0, Data |-> EmptyValue, LastModified |-> 0]
    IN  IF o.err # NilErr THEN [err |-> o.err, session |-> none]
        ELSE IF e.err # NilErr THEN [err |-> e.err, session |-> none]
        ELSE [err |-> NilErr,
              session |-> [ID |-> o.oid, Data |-> e.token, LastModified |-> t]]

\* sessionFromGorillaSession dropping the error of ObjectIDFromHex.
sessionFromGorillaSession_NoHexCheck(s, codecs, t) ==
    LET o == ObjectIDFromHex(s.id)
        e == EncodeMulti(s.name, ValuesPayload(s.values), codecs)
        none == [ID |-> 0, Data |-> EmptyValue, LastModified |-> 0]
    IN  IF e.err # NilErr THEN [err |-> e.err, session |-> none]
        ELSE [err |-> NilErr,
              session |-> [ID |-> o.oid, Data |-> e.token, LastModified |-> t]]

\* sessionFromGorillaSession giving the record an ObjectID of its own
\* instead of the session's.
sessionFromGorillaSession_OwnObjectID(s, codecs, t) ==
    LET o == ObjectIDFromHex(s.id)
        e == EncodeMulti(s.name, ValuesPayload(s.values), codecs)
        none == [ID |-> 0, Data |-> EmptyValue, LastModified |-> 0]
    IN  IF o.err # NilErr THEN [err |-> o.err, session |-> none]
        ELSE IF e.err # NilErr THEN [err |-> e.err, session |-> none]
        ELSE [err |-> NilErr,
              session |-> [ID |-> o.oid + MaxGen + 1, Data |-> e.token,
                           LastModified |-> t]]

\* sessionFromGorillaSession: the record of a session at time t.
sessionFromGorillaSession(s, codecs, t) ==
    LET o == ObjectIDFromHex(s.id)
        e == EncodeMulti(s.name, ValuesPayload(s.values), codecs)
        none == [ID |-> 0, Data |-> EmptyValue, LastModified |-> 0]
    IN  IF o.err # NilErr THEN [err |-> o.err, session |-> none]
        ELSE IF e.err # NilErr THEN [err |-> e.err, session |-> none]
        ELSE [err |-> NilErr,
              session |-> [ID |-> o.oid, Data |-> e.token, LastModified |-> t]]

\* updateDocFromSession: $set of data and of last_modified = time.Now().
updateDocFromSession(session, t) == [data |-> session.Data, last_modified |-> t]

\* delete calling FindOne where it should call FindOneAndDelete.
delete_KeepsRecord(database, sessionID, dbFail) ==
    LET o == ObjectIDFromHex(sessionID)
    IN  IF o.err # NilErr
        THEN [err |-> o.err, db |-> database, opErr |-> NilErr]
        ELSE LET d == FindOne(database, o.oid, dbFail)
             IN  [err |-> d.err, db |-> database, opErr |-> d.err]

\* MongoDBStore.delete
delete(database, sessionID, dbFail) ==
    LET o == ObjectIDFromHex(sessionID)
    IN  IF o.err # NilErr
        THEN [err |-> o.err, db |-> database, opErr |-> NilErr]
        ELSE LET d == FindOneAndDelete(database, o.oid, dbFail)
             IN  [err |-> d.err, db |-> d.db, opErr |-> d.err]

\* load decoding the data into a map it then drops.
load_DropsValues(st, database, s, dbFail) ==
    LET o == ObjectIDFromHex(s.id)
    IN  IF o.err # NilErr
        THEN [err |-> o.err, sess |-> s, opErr |-> NilErr]
        ELSE LET f == FindOne(database, o.oid, dbFail)
                 d == DecodeMulti(s.name, f.doc.data, "values", st.codecs)
             IN  IF f.err # NilErr THEN [err |-> f.err, sess |-> s, opErr |-> f.err]
                 ELSE IF d.err # NilErr THEN [err |-> d.err, sess |-> s, opErr |-> NilErr]
                 ELSE [err |-> NilErr, sess |-> s, opErr |-> NilErr]

\* MongoDBStore.load
load(st, database, s, dbFail) ==
    LET o == ObjectIDFromHex(s.id)
    IN  IF o.err # NilErr
        THEN [err |-> o.err, sess |-> s, opErr |-> NilErr]
        ELSE LET f == FindOne(database, o.oid, dbFail)
                 d == DecodeMulti(s.name, f.doc.data, "values", st.codecs)
             IN  IF f.err # NilErr THEN [err |-> f.err, sess |-> s, opErr |-> f.err]
                 ELSE IF d.err # NilErr THEN [err |-> d.err, sess |-> s, opErr |-> NilErr]
                 ELSE [err |-> NilErr,
                       sess |-> [s EXCEPT !.values = d.p.values],
                       opErr |-> NilErr]

\* New returning the error of r.Cookie when the request has no cookie.
StoreNew_NoCookieIsError(st, database, name, cookie, oid, dbFail) ==
    LET fresh == [name |-> name, id |-> Hex(oid), values |-> EmptyValues,
                  options |-> derefOpts(st.defaultOptions).value,
                  optionsOf |-> derefOpts(st.defaultOptions).owner,
                  isNew |-> TRUE]
    IN  IF cookie = <<>>
        THEN [sess |-> fresh, err |-> Err("http: named cookie not present"),
              opErr |-> NilErr]
        ELSE LET d == DecodeMulti(name, cookie[1], "id", st.codecs)
                 l == load(st, database, [fresh EXCEPT !.id = d.p.id], dbFail)
             IN  IF d.err # NilErr
                 THEN [sess |-> fresh, err |-> d.err, opErr |-> NilErr]
                 ELSE IF l.err # NilErr
                 THEN [sess |-> l.sess, err |-> l.err, opErr |-> l.opErr]
                 ELSE [sess |-> [l.sess EXCEPT !.isNew = FALSE],
                       err |-> NilErr, opErr |-> NilErr]

\* New clearing IsNew as soon as the cookie decodes, before load.
StoreNew_ClearsIsNewEarly(st, database, name, cookie, oid, dbFail) ==
    LET fresh == [name |-> name, id |-> Hex(oid), values |-> EmptyValues,
                  options |-> derefOpts(st.defaultOptions).value,
                  optionsOf |-> derefOpts(st.defaultOptions).owner,
                  isNew |-> TRUE]
    IN  IF cookie = <<>>
        THEN [sess |-> fresh, err |-> NilErr, opErr |-> NilErr]
        ELSE LET d == DecodeMulti(name, cookie[1], "id", st.codecs)
                 l == load(st, database,
                           [fresh EXCEPT !.id = d.p.id, !.isNew = FALSE], dbFail)
             IN  IF d.err # NilErr
                 THEN [sess |-> fresh, err |-> d.err, opErr |-> NilErr]
                 ELSE [sess |-> l.sess, err |-> l.err, opErr |-> l.opErr]

\* MongoDBStore.New. cookie is <<>> when the request has none for the name,
\* <<value>> otherwise; oid is the primitive.NewObjectID() of this call.
StoreNew(st, database, name, cookie, oid, dbFail) ==
    LET fresh == [name |-> name, id |-> Hex(oid), values |-> EmptyValues,
                  options |-> derefOpts(st.defaultOptions).value,
                  optionsOf |-> derefOpts(st.defaultOptions).owner,
                  isNew |-> TRUE]
    IN  IF cookie = <<>>
        THEN [sess |-> fresh, err |-> NilErr, opErr |-> NilErr]
        ELSE LET d == DecodeMulti(name, cookie[1], "id", st.codecs)
                 l == load(st, database, [fresh EXCEPT !.id = d.p.id], dbFail)
             IN  IF d.err # NilErr
                 THEN [sess |-> fresh, err |-> d.err, opErr |-> NilErr]
                 ELSE IF l.err # NilErr
                 THEN [sess |-> l.sess, err |-> l.err, opErr |-> l.opErr]
                 ELSE [sess |-> [l.sess EXCEPT !.isNew = FALSE],
                       err |-> NilErr, opErr |-> NilErr]

\* clearSession returning the delete error before the cookie is cleared.
clearSession_ReturnsEarly(database, cookies, s, dbFail) ==
    LET d == IF ~s.isNew
             THEN delete(database, s.id, dbFail)
             ELSE [err |-> NilErr, db |-> database, opErr |-> NilErr]
    IN  [err |-> d.err,
         db |-> d.db,
         w |-> IF d.err # NilErr
               THEN cookies
               ELSE SetCookie(cookies, NewCookie(s.name, EmptyValue, s.options)),
         opErr |-> d.opErr]

\* MongoDBStore.clearSession
clearSession(database, cookies, s, dbFail) ==
    LET d == IF ~s.isNew
             THEN delete(database, s.id, dbFail)
             ELSE [err |-> NilErr, db |-> database, opErr |-> NilErr]
    IN  [err |-> d.err,
         db |-> d.db,
         w |-> SetCookie(cookies, NewCookie(s.name, EmptyValue, s.options)),
         opErr |-> d.opErr]

\* MongoDBStore.save, up to the update document that saveSession sends.
save(st, s, t) ==
    LET r == sessionFromGorillaSession(s, st.codecs, t)
    IN  [err |-> r.err,
         oid |-> r.session.ID,
         update |-> updateDocFromSession(r.session, t)]

\* Save putting the encoded values, not the encoded identifier, in the cookie.
saveSession_CookieHoldsData(st, database, cookies, s, upd, dbFail) ==
    LET u == UpdateOne(database, upd.oid, upd.update, dbFail)
        e == EncodeMulti(s.name, IDPayload(s.id), st.codecs)
    IN  IF u.err # NilErr
        THEN [err |-> u.err, db |-> u.db, sess |-> s, w |-> cookies, opErr |-> u.err]
        ELSE IF e.err # NilErr
        THEN [err |-> e.err, db |-> u.db, sess |-> [s EXCEPT !.isNew = FALSE],
              w |-> cookies, opErr |-> NilErr]
        ELSE [err |-> NilErr, db |-> u.db, sess |-> [s EXCEPT !.isNew = FALSE],
              w |-> SetCookie(cookies, NewCookie(s.name, upd.update.data, s.options)),
              opErr |-> NilErr]

\* saveSession dropping the error of UpdateOne.
saveSession_DropsError(st, database, cookies, s, upd, dbFail) ==
    LET u == UpdateOne(database, upd.oid, upd.update, dbFail)
        e == EncodeMulti(s.name, IDPayload(s.id), st.codecs)
    IN  IF e.err # NilErr
        THEN [err |-> e.err, db |-> u.db, sess |-> [s EXCEPT !.isNew = FALSE],
              w |-> cookies, opErr |-> u.err]
        ELSE [err |-> NilErr, db |-> u.db, sess |-> [s EXCEPT !.isNew = FALSE],
              w |-> SetCookie(cookies, NewCookie(s.name, e.token, s.options)),
              opErr |-> u.err]

\* Save rewriting sess.ID from the ObjectID it saved under.
saveSession_RewritesID(st, database, cookies, s, upd, dbFail) ==
    LET u == UpdateOne(database, upd.oid, upd.update, dbFail)
        e == EncodeMulti(s.name, IDPayload(Hex(upd.oid)), st.codecs)
    IN  IF u.err # NilErr
        THEN [err |-> u.err, db |-> u.db, sess |-> s, w |-> cookies, opErr |-> u.err]
        ELSE IF e.err # NilErr
        THEN [err |-> e.err, db |-> u.db,
              sess |-> [s EXCEPT !.isNew = FALSE, !.id = Hex(upd.oid)],
              w |-> cookies, opErr |-> NilErr]
        ELSE [err |-> NilErr, db |-> u.db,
              sess |-> [s EXCEPT !.isNew = FALSE, !.id = Hex(upd.oid)],
              w |-> SetCookie(cookies, NewCookie(s.name, e.token, s.options)),
              opErr |-> NilErr]

\* Save clearing IsNew before it looks at the error of save.
saveSession_ClearsIsNewFirst(st, database, cookies, s, upd, dbFail) ==
    LET u == UpdateOne(database, upd.oid, upd.update, dbFail)
        e == EncodeMulti(s.name, IDPayload(s.id), st.codecs)
    IN  IF u.err # NilErr
        THEN [err |-> u.err, db |-> u.db, sess |-> [s EXCEPT !.isNew = FALSE],
              w |-> cookies, opErr |-> u.err]
        ELSE IF e.err # NilErr
        THEN [err |-> e.err, db |-> u.db, sess |-> [s EXCEPT !.isNew = FALSE],
              w |-> cookies, opErr |-> NilErr]
        ELSE [err |-> NilErr, db |-> u.db, sess |-> [s EXCEPT !.isNew = FALSE],
              w |-> SetCookie(cookies, NewCookie(s.name, e.token, s.options)),
              opErr |-> NilErr]

\* MongoDBStore.saveSession and the rest of Save once the upsert returned:
\* IsNew is cleared, the identifier is encoded and the cookie is set.
saveSession(st, database, cookies, s, upd, dbFail) ==
    LET u == UpdateOne(database, upd.oid, upd.update, dbFail)
        e == EncodeMulti(s.name, IDPayload(s.id), st.codecs)
    IN  IF u.err # NilErr
        THEN [err |-> u.err, db |-> u.db, sess |-> s, w |-> cookies, opErr |-> u.err]
        ELSE IF e.err # NilErr
        THEN [err |-> e.err, db |-> u.db, sess |-> [s EXCEPT !.isNew = FALSE],
              w |-> cookies, opErr |-> NilErr]
        ELSE [err |-> NilErr, db |-> u.db, sess |-> [s EXCEPT !.isNew = FALSE],
              w |-> SetCookie(cookies, NewCookie(s.name, e.token, s.options)),
              opErr |-> NilErr]

---------------------------------------------------------------------------
\* The state machine.

\* The session name (the cookie key) requests are served under, and the
\* names a handler may give a session it builds itself.
SessionName == "session-name"
Names == {SessionName, "other-name"}

\* Inputs of NewMongoDBStore for the stores that serve requests: a store
\* with a rotated pair of codecs and synthesized options, a store with one
\* codec too short for an identifier or a map with entries, and a store
\* without codecs.
ServingArgs ==
    {[ttl |-> 5 * Second, ensureTTLIndex |-> TRUE, sessionOptions |-> <<>>,
      codecs |-> <<[key |-> "k1", maxLength |-> 1], [key |-> "k2", maxLength |-> 3]>>,
      pingOK |-> TRUE, indexOK |-> TRUE],
     [ttl |-> 5 * Second, ensureTTLIndex |-> FALSE,
      sessionOptions |-> <<[path |-> "", maxAge |-> 50]>>,
      codecs |-> <<[key |-> "k1", maxLength |-> 1]>>,
      pingOK |-> TRUE, indexOK |-> TRUE],
     [ttl |-> 5 * Second, ensureTTLIndex |-> FALSE,
      sessionOptions |-> <<[path |-> "", maxAge |-> 50]>>,
      codecs |-> <<>>,
      pingOK |-> TRUE, indexOK |-> TRUE]}

\* Cookie values a client can send besides the ones in its jar: a made-up
\* value, a value another issuer signed with the store's key for a string
\* that is no ObjectID, and the store's own token for another session name.
ClientValues ==
    {Forged,
     [key |-> "k2", name |-> SessionName, kind |-> "id", id |-> BadID, values |-> EmptyValues],
     [key |-> "k2", name |-> "other-name", kind |-> "id", id |-> Hex(1), values |-> EmptyValues]}

\* The max-age values a handler assigns to sess.Options.MaxAge (a session
\* from sessions.NewSession starts with 0).
MaxAges == {-1, 50}

EmptyDB == [o \in {} |-> NoDoc]
NoSess == NewSession("")
NoUpdate == [oid |-> 0, update |-> NoDoc, preID |-> EmptyID]
\* ret when no call returned in the last step. A call's ret holds: the
\* operation, the request, the error returned, the error of the collection
\* operation the call ran (NilErr if it ran none or it succeeded), the session
\* and the collection as they were when the call began, the request's cookie
\* (New) and the Set-Cookie headers the call added (Save).
NoCall == [op |-> "none", req |-> "", err |-> NilErr, opErr |-> NilErr,
           pre |-> NoSess, db |-> EmptyDB, cookie |-> <<>>, set |-> <<>>]

\* The values a client keeps for the cookie named SessionName out of the
\* Set-Cookie headers a call added (r.Cookie looks a cookie up by name).
Sent(cookies) ==
    {cookies[i].value : i \in {j \in 1..Len(cookies) : cookies[j].name = SessionName}}
        \ {EmptyValue}

\* The state after NewMongoDBStore(a) on an empty collection.
InitWith(a) ==
    /\ db = EmptyDB
    /\ index = NewMongoDBStore(a, <<>>).index
    /\ store = NewMongoDBStore(a, <<>>).store
    /\ built = <<[args |-> a, err |-> NewMongoDBStore(a, <<>>).err]>>
    /\ gen = 0
    /\ now = 0
    /\ pc = [r \in Reqs |-> "idle"]
    /\ sess = [r \in Reqs |-> NoSess]
    /\ w = [r \in Reqs |-> <<>>]
    /\ pending = [r \in Reqs |-> NoUpdate]
    /\ jar = {}
    /\ ret = NoCall

Init == \E a \in ServingArgs : InitWith(a)

\* A request arrives and its handler calls store.New (or store.Get on a
\* fresh registry); the request's cookie is one of cookies and the
\* collection's answer to FindOne one of fails.
NewWith(r, cookies, fails) ==
    /\ pc[r] = "idle"
    /\ store # <<>>
    /\ gen < MaxGen
    /\ \E cookie \in cookies, dbFail \in fails :
          LET n == StoreNew(store[1], db, SessionName, cookie, gen + 1, dbFail)
          IN  /\ sess' = [sess EXCEPT ![r] = n.sess]
              /\ ret' = [op |-> "New", req |-> r, err |-> n.err, opErr |-> n.opErr,
                          pre |-> NoSess, db |-> db, cookie |-> cookie, set |-> <<>>]
    /\ gen' = gen + 1
    /\ pc' = [pc EXCEPT ![r] = "handler"]
    /\ UNCHANGED <<db, index, store, built, now, w, pending, jar>>

\* store.New for a request of any client: without cookie, with a cookie
\* the store sent, or with one of ClientValues.
New(r) == NewWith(r, {<<>>} \cup {<<v>> : v \in jar \cup ClientValues}, BOOLEAN)

\* store.New for a request of a client that sends back the cookie it was
\* given, if it was given one, with a collection that answers.
ClientNew(r) ==
    NewWith(r, IF jar = {} THEN {<<>>} ELSE {<<v>> : v \in jar}, {FALSE})

\* A handler builds a session itself with sessions.NewSession.
MakeSession(r) ==
    /\ pc[r] = "idle"
    /\ store # <<>>
    /\ \E name \in Names : sess' = [sess EXCEPT ![r] = NewSession(name)]
    /\ pc' = [pc EXCEPT ![r] = "handler"]
    /\ UNCHANGED <<db, index, store, built, gen, now, w, pending, jar>>
    /\ ret' = NoCall

\* The handler assigns sess.Values.
SetValues(r) ==
    /\ pc[r] = "handler"
    /\ \E v \in Values : sess' = [sess EXCEPT ![r].values = v]
    /\ UNCHANGED <<db, index, store, built, gen, now, pc, w, pending, jar>>
    /\ ret' = NoCall

\* The handler assigns sess.Options.MaxAge.
SetMaxAge(r) ==
    /\ pc[r] = "handler"
    /\ \E m \in MaxAges :
          /\ sess' = [sess EXCEPT ![r].options.maxAge = m]
          /\ store' = IF sess[r].optionsOf = "store"
                       THEN <<[store[1] EXCEPT !.defaultOptions.maxAge = m]>>
                       ELSE store
    /\ UNCHANGED <<db, index, built, gen, now, pc, w, pending, jar>>
    /\ ret' = NoCall

\* The handler assigns sess.ID.
SetID(r) ==
    /\ pc[r] = "handler"
    /\ \E id \in AppIDs(gen) : sess' = [sess EXCEPT ![r].id = id]
    /\ UNCHANGED <<db, index, store, built, gen, now, pc, w, pending, jar>>
    /\ ret' = NoCall

\* store.Save with MaxAge <= 0: clearSession, as one step (its one
\* collection operation is the delete).
SaveClear(r) ==
    /\ pc[r] = "handler"
    /\ sess[r].options.maxAge <= 0
    /\ Len(w[r]) < MaxCookies
    /\ \E dbFail \in BOOLEAN :
          LET c == clearSession(db, w[r], sess[r], dbFail)
          IN  /\ db' = c.db
              /\ w' = [w EXCEPT ![r] = c.w]
              /\ ret' = [op |-> "Save", req |-> r, err |-> c.err, opErr |-> c.opErr,
                          pre |-> sess[r], db |-> db, cookie |-> <<>>,
                          set |-> SubSeq(c.w, Len(w[r]) + 1, Len(c.w))]
    /\ UNCHANGED <<index, store, built, gen, now, pc, sess, pending, jar>>

\* store.Save with MaxAge > 0, up to the call of UpdateOne: the identifier
\* is generated if there is none, the session is translated and the update
\* document is built with the current time. A translation error returns.
Save(r) ==
    /\ pc[r] = "handler"
    /\ sess[r].options.maxAge > 0
    /\ Len(w[r]) < MaxCookies
    /\ sess[r].id = EmptyID => gen < MaxGen
    /\ LET s == IF sess[r].id = EmptyID
                THEN [sess[r] EXCEPT !.id = Hex(gen + 1)]
                ELSE sess[r]
           u == save(store[1], s, now)
       IN  /\ gen' = IF sess[r].id = EmptyID THEN gen + 1 ELSE gen
           /\ sess' = [sess EXCEPT ![r] = s]
           /\ IF u.err # NilErr
              THEN /\ ret' = [op |-> "Save", req |-> r, err |-> u.err, opErr |-> NilErr,
                               pre |-> sess[r], db |-> db, cookie |-> <<>>,
                               set |-> <<>>]
                   /\ UNCHANGED <<pc, pending>>
              ELSE /\ pending' = [pending EXCEPT ![r] =
                                     [oid |-> u.oid, update |-> u.update,
                                      preID |-> sess[r].id]]
                   /\ pc' = [pc EXCEPT ![r] = "saving"]
                   /\ ret' = NoCall
    /\ UNCHANGED <<db, index, store, built, now, w, jar>>

\* The UpdateOne of a Save reaches the collection and Save returns.
SaveSession(r) ==
    /\ pc[r] = "saving"
    /\ \E dbFail \in BOOLEAN :
          LET c == saveSession(store[1], db, w[r], sess[r], pending[r], dbFail)
          IN  /\ db' = c.db
              /\ sess' = [sess EXCEPT ![r] = c.sess]
              /\ w' = [w EXCEPT ![r] = c.w]
              /\ jar' = jar \cup Sent(SubSeq(c.w, Len(w[r]) + 1, Len(c.w)))
              /\ ret' = [op |-> "Save", req |-> r, err |-> c.err, opErr |-> c.opErr,
                          pre |-> [sess[r] EXCEPT !.id = pending[r].preID],
                          db |-> db, cookie |-> <<>>,
                          set |-> SubSeq(c.w, Len(w[r]) + 1, Len(c.w))]
    /\ pending' = [pending EXCEPT ![r] = NoUpdate]
    /\ pc' = [pc EXCEPT ![r] = "handler"]
    /\ UNCHANGED <<index, store, built, gen, now>>

\* The handler returns and the response is written.
EndRequest(r) ==
    /\ pc[r] = "handler"
    /\ pc' = [pc EXCEPT ![r] = "idle"]
    /\ sess' = [sess EXCEPT ![r] = NoSess]
    /\ w' = [w EXCEPT ![r] = <<>>]
    /\ UNCHANGED <<db, index, store, built, gen, now, pending, jar>>
    /\ ret' = NoCall

Next ==
    \/ \E r \in Reqs : New(r)
    \/ \E r \in Reqs : MakeSession(r)
    \/ \E r \in Reqs : SetValues(r)
    \/ \E r \in Reqs : SetMaxAge(r)
    \/ \E r \in Reqs : SetID(r)
    \/ \E r \in Reqs : SaveClear(r)
    \/ \E r \in Reqs : Save(r)
    \/ \E r \in Reqs : SaveSession(r)
    \/ \E r \in Reqs : EndRequest(r)

Spec == Init /\ [][Next]_vars

---------------------------------------------------------------------------
\* Construction on its own: NewMongoDBStore is called with every
\* combination of inputs, against a collection whose ping or index creation
\* may fail.

TTLs == {-2 * Second, -(Second \div 2), 0, Second \div 2, Second, 5 * Second}

CtorArgs ==
    [ttl : TTLs,
     ensureTTLIndex : BOOLEAN,
     sessionOptions : {<<>>, <<[path |-> "testPath", maxAge |-> 245]>>},
     codecs : {<<>>, <<[key |-> "k2", maxLength |-> 3]>>},
     pingOK : BOOLEAN,
     indexOK : BOOLEAN]

InitCtor ==
    /\ db = EmptyDB
    /\ index = <<>>
    /\ store = <<>>
    /\ built = <<>>
    /\ gen = 0
    /\ now = 0
    /\ pc = [r \in Reqs |-> "idle"]
    /\ sess = [r \in Reqs |-> NoSess]
    /\ w = [r \in Reqs |-> <<>>]
    /\ pending = [r \in Reqs |-> NoUpdate]
    /\ jar = {}
    /\ ret = NoCall

\* A call of NewMongoDBStore.
Construct ==
    \E a \in CtorArgs :
        /\ store' = NewMongoDBStore(a, index).store
        /\ index' = NewMongoDBStore(a, index).index
        /\ built' = <<[args |-> a, err |-> NewMongoDBStore(a, index).err]>>
        /\ UNCHANGED <<db, gen, now, pc, sess, w, pending, jar, ret>>

NextCtor == Construct

SpecCtor == InitCtor /\ [][NextCtor]_vars

---------------------------------------------------------------------------
\* Sessions over time: the clock advances and the collection's TTL monitor
\* removes the documents its index tells it to.

\* Half a second passes.
Tick ==
    /\ now < MaxTicks * (Second \div 2)
    /\ now' = now + Second \div 2
    /\ UNCHANGED <<db, index, store, built, gen, pc, sess, w, pending, jar>>
    /\ ret' = NoCall

\* A document is due under the index of makeTTLIndexModel at time t: the
\* indexed field, last_modified, lies expireAfterSeconds or more in the past.
Expired(idx, doc, t) ==
    /\ idx # <<>>
    /\ idx[1].key = "last_modified"
    /\ doc.last_modified + idx[1].expireAfterSeconds * Second <= t

\* The collection's TTL monitor removes a document that is due.
Expire(oid) ==
    /\ oid \in DOMAIN db
    /\ Expired(index, db[oid], now)
    /\ db' = [o \in DOMAIN db \ {oid} |-> db[o]]
    /\ ret' = [NoCall EXCEPT !.op = "Expire", !.db = db, !.pre.id = Hex(oid)]
    /\ UNCHANGED <<index, store, built, gen, now, pc, sess, w, pending, jar>>

\* Stores with a TTL of half a second, one second and one and a half, with
\* and without the TTL index, whose sessions persist when saved.
TTLArgs ==
    [ttl : {Second \div 2, Second, Second + Second \div 2},
     ensureTTLIndex : BOOLEAN,
     sessionOptions : {<<[path |-> "/", maxAge |-> 50]>>},
     codecs : {<<[key |-> "k2", maxLength |-> 3]>>},
     pingOK : {TRUE},
     indexOK : {TRUE}]

InitTTL == \E a \in TTLArgs : InitWith(a)

NextTTL ==
    \/ \E r \in Reqs : ClientNew(r)
    \/ \E r \in Reqs : Save(r)
    \/ \E r \in Reqs : SaveSession(r)
    \/ \E r \in Reqs : EndRequest(r)
    \/ Tick
    \/ \E oid \in 1..MaxGen : Expire(oid)

\* Time passes, and the TTL monitor, a background task of the collection's
\* server, gets to every document that stays due.
SpecTTL ==
    /\ InitTTL /\ [][NextTTL]_vars
    /\ WF_vars(Tick)
    /\ \A oid \in 1..MaxGen : WF_vars(Expire(oid))

---------------------------------------------------------------------------
\* Concurrent requests: two requests of a client whose session an earlier
\* run of the server saved are served at the same time, each by its own
\* goroutine with its own session; their collection operations interleave.

ConcReqs == {"r1", "r2"}

\* The ObjectID of the session saved earlier.
EarlierOid == MaxGen + 1

ConcArgs ==
    [ttl |-> 5 * Second, ensureTTLIndex |-> FALSE,
     sessionOptions |-> <<[path |-> "/", maxAge |-> 50]>>,
     codecs |-> <<[key |-> "k2", maxLength |-> 3]>>,
     pingOK |-> TRUE, indexOK |-> TRUE]

\* The store is built; the collection holds the document, and the client
\* the cookie, that a Save of a session without values left at time 0.
InitConc ==
    /\ store = NewMongoDBStore(ConcArgs, <<>>).store
    /\ index = NewMongoDBStore(ConcArgs, <<>>).index
    /\ built = <<[args |-> ConcArgs, err |-> NewMongoDBStore(ConcArgs, <<>>).err]>>
    /\ db = [o \in {EarlierOid} |->
               [data |-> EncodeMulti(SessionName, ValuesPayload(EmptyValues),
                                     ConcArgs.codecs).token,
                last_modified |-> 0]]
    /\ jar = {EncodeMulti(SessionName, IDPayload(Hex(EarlierOid)), ConcArgs.codecs).token}
    /\ gen = 0
    /\ now = 0
    /\ pc = [r \in ConcReqs |-> "idle"]
    /\ sess = [r \in ConcReqs |-> NoSess]
    /\ w = [r \in ConcReqs |-> <<>>]
    /\ pending = [r \in ConcReqs |-> NoUpdate]
    /\ ret = NoCall

NextConc ==
    \/ \E r \in ConcReqs : ClientNew(r)
    \/ \E r \in ConcReqs : SetValues(r)
    \/ \E r \in ConcReqs : Save(r)
    \/ \E r \in ConcReqs : SaveSession(r)
    \/ \E r \in ConcReqs : EndRequest(r)
    \/ Tick

SpecConc == InitConc /\ [][NextConc]_vars

---------------------------------------------------------------------------
\* Logging out under concurrency: two requests of the client whose session
\* was saved earlier, each of which may end the session (max-age <= 0) or
\* save it (max-age > 0).

NextLogout ==
    \/ \E r \in ConcReqs : ClientNew(r)
    \/ \E r \in ConcReqs : SetMaxAge(r)
    \/ \E r \in ConcReqs : SaveClear(r)
    \/ \E r \in ConcReqs : Save(r)
    \/ \E r \in ConcReqs : SaveSession(r)
    \/ \E r \in ConcReqs : EndRequest(r)

SpecLogout == InitConc /\ [][NextLogout]_vars

---------------------------------------------------------------------------
\* Properties. ret describes the call that returned in the step leading to
\* the state, so each property speaks of the state right after that call.

\* The session the returned call worked on, as it is after the call.
Post == sess[ret.req]
\* The ObjectID of an identifier string that ObjectIDFromHex accepts.
OidOf(id) == ObjectIDFromHex(id).oid
ValidID(id) == ObjectIDFromHex(id).err = NilErr
\* The cookie a termination sets.
ClearedCookie(s) == NewCookie(s.name, EmptyValue, s.options)
SaveReturned == ret.op = "Save"
NewReturned == ret.op = "New"
Persisting == SaveReturned /\ ret.pre.options.maxAge > 0
Terminating == SaveReturned /\ ret.pre.options.maxAge <= 0

\* C1: when Save of a session with a valid identifier X, values V and
\* max-age > 0 returns no error, the collection holds a document keyed by X
\* whose data decodes, under the store's codecs and the session's name, to
\* exactly V, and the session's IsNew is false.
C1_SaveStoresValues ==
    (Persisting /\ ValidID(ret.pre.id) /\ ret.err = NilErr)
    => /\ OidOf(ret.pre.id) \in DOMAIN db
       /\ DecodeMulti(ret.pre.name, db[OidOf(ret.pre.id)].data, "values",
                      store[1].codecs)
            = [err |-> NilErr, p |-> ValuesPayload(ret.pre.values)]
       /\ ~Post.isNew

C1_Witness ==
    /\ Persisting /\ ret.err = NilErr
    /\ ret.pre.isNew /\ ret.pre.id.form = "lower"
    /\ ret.pre.values # EmptyValues

\* C2 as stated: after Save with max-age <= 0 returns no error, for any
\* session, the collection holds no document for the session's identifier
\* and the cookie set for the session name has an empty value.
C2_AnyFacade ==
    (Terminating /\ ret.err = NilErr)
    => /\ ret.set = <<ClearedCookie(ret.pre)>>
       /\ ValidID(ret.pre.id) => OidOf(ret.pre.id) \notin DOMAIN db

\* C2, amended: the cookie with the empty value is set for any session; the
\* document is gone (a load by the identifier fails with not-found) when
\* the session's IsNew was false.
C2_ClearDeletesLoadedSession ==
    (Terminating /\ ret.err = NilErr)
    => /\ ret.set = <<ClearedCookie(ret.pre)>>
       /\ ~ret.pre.isNew =>
            /\ ValidID(ret.pre.id)
            /\ OidOf(ret.pre.id) \notin DOMAIN db
            /\ load(store[1], db, Post, FALSE).err = ErrNoDocuments

C2_Witness ==
    /\ Terminating /\ ret.err = NilErr /\ ~ret.pre.isNew
    /\ ValidID(ret.pre.id) /\ OidOf(ret.pre.id) \in DOMAIN ret.db

C4_CookieIsEncodedID ==
    (Persisting /\ ret.err = NilErr)
    => /\ Len(ret.set) = 1
       /\ ret.set[1].name = ret.pre.name
       /\ ret.set[1].options = ret.pre.options
       /\ ret.set[1].value.kind = "id"
       /\ ret.set[1].value.key \in {store[1].codecs[i].key : i \in 1..Len(store[1].codecs)}
       /\ DecodeMulti(ret.pre.name, ret.set[1].value, "id", store[1].codecs)
            = [err |-> NilErr, p |-> IDPayload(Post.id)]
       /\ ret.pre.id # EmptyID => Post.id = ret.pre.id

C4_Witness ==
    /\ Persisting /\ ret.err = NilErr
    /\ ret.pre.options # store[1].defaultOptions
    /\ ret.pre.values # EmptyValues

\* C5 as stated: Save of a session whose identifier is malformed returns
\* the identifier-format error and sets no cookie, whatever max-age and
\* IsNew are.
C5_AnyMaxAge ==
    (SaveReturned /\ ret.pre.id = BadID)
    => ret.err = ErrInvalidHex /\ ret.set = <<>>

\* C5, amended: with max-age > 0 the format error is returned and no cookie
\* is set, whatever IsNew is; with max-age <= 0 the clearing cookie is set,
\* and the format error is returned when IsNew is false, nil when it is true.
C5_BadIDBranches ==
    (SaveReturned /\ ret.pre.id = BadID)
    => /\ ret.pre.options.maxAge > 0
            => ret.err = ErrInvalidHex /\ ret.set = <<>>
       /\ ret.pre.options.maxAge <= 0
            => /\ ret.set = <<ClearedCookie(ret.pre)>>
               /\ ret.err = IF ret.pre.isNew THEN NilErr ELSE ErrInvalidHex
       /\ db = ret.db

C5_Witness ==
    /\ Persisting /\ ret.pre.id = BadID /\ ret.pre.isNew
    /\ ret.err = ErrInvalidHex /\ ret.set = <<>>

\* The first failure a Save with max-age > 0 of the session meets before
\* its upsert: the translation of the identifier, the encoding of the values.
TranslationErr(s) ==
    IF s.id # EmptyID /\ ~ValidID(s.id) THEN ErrInvalidHex
    ELSE EncodeMulti(s.name, ValuesPayload(s.values), store[1].codecs).err

\* C6 as stated: every encoding, translation or collection failure during
\* Save is returned, and a Save that returns an error has set no cookie.
C6_NoCookieOnAnyError ==
    SaveReturned
    => /\ ret.opErr # NilErr => ret.err = ret.opErr
       /\ ret.err # NilErr => ret.set = <<>>

\* C6, amended: every encoding, translation or collection failure during
\* Save is returned; a Save with max-age > 0 that returns an error has set
\* no cookie, a Save with max-age <= 0 that returns an error has set the
\* clearing cookie.
C6_FailuresReturned ==
    SaveReturned
    => /\ ret.opErr # NilErr => ret.err = ret.opErr
       /\ Persisting =>
            /\ TranslationErr(ret.pre) # NilErr => ret.err = TranslationErr(ret.pre)
            /\ (/\ TranslationErr(ret.pre) = NilErr
                /\ ret.opErr = NilErr
                /\ EncodeMulti(Post.name, IDPayload(Post.id), store[1].codecs).err # NilErr)
               => ret.err = EncodeMulti(Post.name, IDPayload(Post.id), store[1].codecs).err
            /\ ret.err # NilErr => ret.set = <<>>
       /\ (Terminating /\ ret.err # NilErr) => ret.set = <<ClearedCookie(ret.pre)>>

C6_Witness ==
    /\ Persisting /\ ret.opErr = ErrDB /\ ret.err = ErrDB /\ ret.set = <<>>
    /\ ret.pre.values # EmptyValues

\* C7: a Save with max-age <= 0 sets the cookie with the empty value for the
\* session name whether the delete succeeds, fails or is skipped for a new
\* session; a failed delete (a collection error, not-found because the
\* document is gone, a malformed identifier) is returned.
C7_ClearAlwaysSetsCookie ==
    Terminating
    => /\ ret.set = <<ClearedCookie(ret.pre)>>
       /\ ret.pre.isNew => ret.err = NilErr /\ db = ret.db
       /\ (~ret.pre.isNew /\ ~ValidID(ret.pre.id)) => ret.err = ErrInvalidHex
       /\ (~ret.pre.isNew /\ ValidID(ret.pre.id)) =>
            /\ ret.opErr = ErrDB => ret.err = ErrDB
            /\ (ret.opErr # ErrDB /\ OidOf(ret.pre.id) \notin DOMAIN ret.db)
                 => ret.err = ErrNoDocuments
            /\ (ret.opErr # ErrDB /\ OidOf(ret.pre.id) \in DOMAIN ret.db)
                 => ret.err = NilErr /\ OidOf(ret.pre.id) \notin DOMAIN db

C7_Witness ==
    /\ Terminating /\ ~ret.pre.isNew /\ ret.pre.id.form = "lower"
    /\ ret.err = ErrNoDocuments
    /\ ret.set = <<ClearedCookie(ret.pre)>>

\* C8: when the request has no cookie for the session name, New returns a
\* usable session with IsNew true, an identifier generated in the call, a
\* copy of the store's default options and a nil error, whatever the
\* collection holds.
C8_NoCookieNewSession ==
    (NewReturned /\ ret.cookie = <<>>)
    => /\ ret.err = NilErr
       /\ Post.isNew
       /\ Post.name = SessionName
       /\ Post.values = EmptyValues
       /\ Post.options = store[1].defaultOptions
       /\ Post.id = Hex(gen)
       /\ OidOf(Post.id) \notin DOMAIN db
       /\ \A t \in jar : OidOf(t.id) # OidOf(Post.id)
       /\ db = ret.db

C8_Witness ==
    /\ NewReturned /\ ret.cookie = <<>>
    /\ db # EmptyDB /\ jar # {}

\* What New meets on the way from the cookie to the values.
CookieDecodes ==
    DecodeMulti(SessionName, ret.cookie[1], "id", store[1].codecs).err = NilErr
CookieID == DecodeMulti(SessionName, ret.cookie[1], "id", store[1].codecs).p.id
RecordFound ==
    /\ ValidID(CookieID)
    /\ ret.opErr = NilErr
    /\ OidOf(CookieID) \in DOMAIN ret.db
DataDecodes ==
    DecodeMulti(SessionName, ret.db[OidOf(CookieID)].data, "values",
                store[1].codecs).err = NilErr

\* C9: New always returns a usable session; with a cookie present, the
\* error is nil and IsNew false exactly when the cookie decodes, the
\* document is found and its data decodes; in every other case the error is
\* not nil and IsNew is true.
C9_NewErrorIffNotLoaded ==
    NewReturned
    => /\ Post.name = SessionName
       /\ Post.options = store[1].defaultOptions
       /\ ret.cookie # <<>> =>
            IF CookieDecodes /\ RecordFound /\ DataDecodes
            THEN ret.err = NilErr /\ ~Post.isNew
            ELSE ret.err # NilErr /\ Post.isNew

C9_Witness ==
    /\ NewReturned /\ ret.cookie # <<>>
    /\ CookieDecodes /\ RecordFound /\ ~DataDecodes
    /\ ret.err = ErrDecode /\ Post.isNew

\* C10 as stated: for every TTL t <= 0 construction fails with an
\* InvalidTTLErr carrying t, whatever the other inputs and the state of the
\* backing store.
C10_AnyBackingStore ==
    (built # <<>> /\ built[1].args.ttl <= 0)
    => built[1].err = NewInvalidTTLErr(built[1].args.ttl)

\* C10, amended: for every TTL t <= 0 construction returns no store; the
\* error is the InvalidTTLErr carrying t whenever the connectivity check
\* passes, whatever the other inputs, and the connectivity error otherwise.
C10_InvalidTTLAfterPing ==
    (built # <<>> /\ built[1].args.ttl <= 0)
    => /\ store = <<>>
       /\ built[1].err = IF built[1].args.pingOK
                         THEN NewInvalidTTLErr(built[1].args.ttl)
                         ELSE ErrPing

C10_Witness ==
    /\ built # <<>>
    /\ built[1].args.ttl = 0
    /\ built[1].args.ensureTTLIndex /\ ~built[1].args.indexOK
    /\ built[1].err = NewInvalidTTLErr(0)
    /\ store = <<>>

\* The inputs under which every step of construction succeeds.
ConstructionInputsOK ==
    /\ built # <<>>
    /\ built[1].args.ttl > 0
    /\ built[1].args.pingOK
    /\ built[1].args.ensureTTLIndex => built[1].args.indexOK

C12_StoreOrError ==
    built # <<>>
    => /\ (store = <<>>) <=> (built[1].err # NilErr)
       /\ (\/ ~built[1].args.pingOK
           \/ built[1].args.ttl <= 0
           \/ built[1].args.ensureTTLIndex /\ ~built[1].args.indexOK)
          => store = <<>> /\ built[1].err # NilErr
       /\ (/\ built[1].args.pingOK /\ built[1].args.ttl > 0
           /\ built[1].args.ensureTTLIndex /\ ~built[1].args.indexOK)
          => built[1].err = ErrIndex

C12_Witness ==
    /\ built # <<>>
    /\ built[1].args.pingOK /\ built[1].args.ttl > 0
    /\ built[1].args.ensureTTLIndex /\ ~built[1].args.indexOK
    /\ built[1].err = ErrIndex /\ store = <<>>

\* The values the data of a document decodes to under the store's codecs
\* and the session's name.
StoredValues(database, s) ==
    DecodeMulti(s.name, database[OidOf(s.id)].data, "values", store[1].codecs)

\* A Save that finds its session already stored: the collection holds,
\* when Save is called, a document for the session's identifier whose data
\* is the session's values, as a Save of the same session leaves it.
AlreadySaved ==
    /\ Persisting /\ ValidID(ret.pre.id)
    /\ OidOf(ret.pre.id) \in DOMAIN ret.db
    /\ StoredValues(ret.db, ret.pre) = [err |-> NilErr, p |-> ValuesPayload(ret.pre.values)]

\* C13: a successful Save (max-age > 0) of a session that an earlier Save
\* stored and that was not modified since leaves the collection with the
\* same documents, the session's document holding the same data; a
\* successful Save of any session adds at most the one document of its
\* identifier, whatever the spelling of the identifier.
C13_SaveIsUpsert ==
    (Persisting /\ ret.err = NilErr)
    => /\ DOMAIN db = DOMAIN ret.db \cup {OidOf(Post.id)}
       /\ AlreadySaved =>
            /\ DOMAIN db = DOMAIN ret.db
            /\ db[OidOf(ret.pre.id)].data = ret.db[OidOf(ret.pre.id)].data
            /\ StoredValues(db, ret.pre) = StoredValues(ret.db, ret.pre)

C13_Witness ==
    /\ AlreadySaved /\ ret.err = NilErr
    /\ ~ret.pre.isNew
    /\ ret.pre.values # EmptyValues
    /\ DOMAIN db = {OidOf(ret.pre.id)}

\* C14 as stated: with an empty codec list, a Save with max-age > 0 of a
\* session with a valid identifier returns no error, unless the collection
\* fails, and the values are stored in the collection.
C14_EmptyCodecsSave ==
    (/\ Persisting /\ store[1].codecs = <<>>
     /\ ValidID(ret.pre.id) /\ ret.opErr = NilErr)
    => /\ ret.err = NilErr
       /\ OidOf(ret.pre.id) \in DOMAIN db

\* The instants of the clock.
Times == {k * (Second \div 2) : k \in 0..MaxTicks}
\* The document of oid stands as it was written at time t.
WrittenAt(oid, t) == oid \in DOMAIN db /\ db[oid].last_modified = t
\* The document of oid was removed or written again since.
GoneOrRewritten(oid, t) == ~WrittenAt(oid, t)
\* The whole seconds of the store's TTL, as a duration.
WholeTTL == (store[1].ttl \div Second) * Second
\* A Save stamps its update with the time at which it builds it, and the
\* upsert that succeeds leaves the document with that stamp.
SaveStampsDocument ==
    \A r \in Reqs :
        /\ (pc[r] = "handler" /\ pc'[r] = "saving")
             => pending'[r].update.last_modified = now
        /\ (pc[r] = "saving" /\ ret'.op = "Save" /\ ret'.opErr = NilErr)
             => /\ pending[r].oid \in DOMAIN db'
                /\ db'[pending[r].oid].last_modified = pending[r].update.last_modified

C16_LastModifiedMonotonic ==
    (/\ Persisting /\ ret.opErr = NilErr
     /\ ValidID(Post.id) /\ OidOf(Post.id) \in DOMAIN ret.db)
    => db[OidOf(Post.id)].last_modified >= ret.db[OidOf(Post.id)].last_modified

\* The encoded values of the session of request r, as Save stores them.
PayloadOf(r) ==
    EncodeMulti(sess[r].name, ValuesPayload(sess[r].values), store[1].codecs).token

\* A step in which the upsert of request r is applied.
Applied(r) ==
    /\ pc[r] = "saving" /\ pc'[r] = "handler"
    /\ ret'.opErr = NilErr

\* C17: concurrent Saves (max-age > 0) of sessions with the same identifier
\* are last-write-wins: the collection's documents change only where a
\* Save's upsert is applied, and the step that applies the upsert of a Save
\* leaves, for that identifier, one document whose data is the whole
\* encoded values of that Save and whose stamp is the one that Save built,
\* and every other document as it was. So once all Saves have completed,
\* the document is the one the upsert applied last wrote.
C17_LastWriteWins ==
    [][/\ db' # db => \E r \in ConcReqs : Applied(r)
       /\ \A r \in ConcReqs :
            Applied(r) =>
                db' = [o \in DOMAIN db \cup {pending[r].oid} |->
                          IF o = pending[r].oid
                          THEN [data |-> PayloadOf(r),
                                last_modified |-> pending[r].update.last_modified]
                          ELSE db[o]]]_vars

C17_Witness ==
    /\ ret.op = "Save" /\ ret.err = NilErr /\ ret.req = "r1"
    /\ pc["r2"] = "saving"
    /\ pending["r2"].oid = OidOf(sess["r1"].id)
    /\ pending["r2"].update.data # db[OidOf(sess["r1"].id)].data
    /\ pending["r2"].update.last_modified < db[OidOf(sess["r1"].id)].last_modified
    /\ DOMAIN db = {OidOf(sess["r1"].id)}

\* The documents other than the one of oid are the same in both.
SameButFor(oid, before, after) ==
    /\ DOMAIN before \ {oid} = DOMAIN after \ {oid}
    /\ \A o \in DOMAIN before \ {oid} : after[o] = before[o]

\* C18: New creates, changes and deletes no document; a Save of a session
\* with identifier X leaves every document whose _id is not X as it was,
\* and changes none at all when X is no ObjectID.
C18_OneDocumentTouched ==
    /\ NewReturned => db = ret.db
    /\ SaveReturned =>
          IF ValidID(Post.id)
          THEN SameButFor(OidOf(Post.id), ret.db, db)
          ELSE db = ret.db

C18_Witness ==
    /\ SaveReturned /\ ret.err = NilErr /\ ValidID(Post.id)
    /\ db # ret.db
    /\ DOMAIN ret.db \ {OidOf(Post.id)} # {}
    /\ OidOf(Post.id) # MinOf(DOMAIN ret.db)

\* C19: a session whose identifier is not empty when Save is called has
\* the same identifier when Save returns, on every path; a session without
\* identifier gets one only from a Save with max-age > 0, an ObjectID
\* generated in that call, and when the upsert is applied the document is
\* stored under it.
C19_IDKeptBySave ==
    SaveReturned
    => /\ ret.pre.id # EmptyID => Post.id = ret.pre.id
       /\ (ret.pre.id = EmptyID /\ Terminating) => Post.id = EmptyID
       /\ (ret.pre.id = EmptyID /\ Persisting) =>
            /\ Post.id = Hex(gen)
            /\ gen \notin DOMAIN ret.db
            /\ (ret.opErr = NilErr /\ TranslationErr(ret.pre) = NilErr)
                 => gen \in DOMAIN db

C19_Witness ==
    /\ Persisting /\ ret.pre.id = EmptyID /\ ret.err = NilErr
    /\ OidOf(Post.id) \in DOMAIN db
    /\ DOMAIN ret.db # {}

\* The upsert of the Save that returned was sent and applied.
UpsertApplied ==
    /\ Persisting
    /\ TranslationErr(ret.pre) = NilErr
    /\ ret.opErr = NilErr

\* C20 as stated: a Save with max-age > 0 that returns an error leaves the
\* collection as it was and IsNew as it was, whichever step failed.
C20_FailedSaveChangesNothing ==
    (Persisting /\ ret.err # NilErr)
    => /\ db = ret.db
       /\ Post.isNew = ret.pre.isNew

\* C20, amended: a Save with max-age > 0 that fails before or at its upsert
\* (the identifier's format, the encoding of the values, the collection)
\* leaves the collection and IsNew as they were; one that fails to encode
\* the identifier, after the upsert, leaves the document written and IsNew
\* false; no cookie is set in either case.
C20_FailedSaveBeforeUpsert ==
    (Persisting /\ ret.err # NilErr)
    => /\ ret.set = <<>>
       /\ ~UpsertApplied => db = ret.db /\ Post.isNew = ret.pre.isNew
       /\ UpsertApplied =>
            /\ ret.err = EncodeMulti(Post.name, IDPayload(Post.id), store[1].codecs).err
            /\ SameButFor(OidOf(Post.id), ret.db, db)
            /\ OidOf(Post.id) \in DOMAIN db
            /\ StoredValues(db, Post) = [err |-> NilErr, p |-> ValuesPayload(Post.values)]
            /\ ~Post.isNew

C20_Witness ==
    /\ Persisting /\ ret.err = ErrEncode /\ UpsertApplied
    /\ ret.pre.isNew /\ ~Post.isNew
    /\ OidOf(Post.id) \notin DOMAIN ret.db
    /\ OidOf(Post.id) \in DOMAIN db

\* The ObjectIDs a document can be stored under.
Oids == 1..(MaxGen + 1)

\* The document of oid was stored and has been deleted: the client holds
\* the cookie a Save set for the identifier, which a Save sets only once its
\* upsert was applied, and the collection, whose documents only the delete
\* of a Save with max-age <= 0 removes here, holds no document for it.
Deleted(oid) ==
    /\ oid \notin DOMAIN db
    /\ \E t \in jar : ValidID(t.id) /\ OidOf(t.id) = oid

\* A step in which request r's Save with max-age > 0, of a session whose
\* identifier is the ObjectID oid, has its upsert applied.
UpsertOf(r, oid) ==
    /\ pc[r] = "saving" /\ pc'[r] = "handler"
    /\ ret'.op = "Save" /\ ret'.req = r /\ ret'.opErr = NilErr
    /\ sess[r].options.maxAge > 0
    /\ ValidID(sess[r].id) /\ OidOf(sess[r].id) = oid

\* C21 as stated: once a Save with max-age <= 0 has deleted the document of
\* an identifier, no later New or Save makes a document for it exist again.
C21_NeverStoredAgain ==
    [][\A oid \in Oids : Deleted(oid) => oid \notin DOMAIN db']_vars

\* C21, amended: once a Save with max-age <= 0 has deleted the document of
\* identifier X, no New and no Save with max-age <= 0 makes a document for
\* X exist again, and no Save of a session with another identifier does; a
\* Save with max-age > 0 of a session whose identifier is X stores it again.
C21_StoredAgainOnlyBySave ==
    [][\A oid \in Oids :
          /\ (oid \notin DOMAIN db /\ oid \in DOMAIN db')
                => \E r \in ConcReqs : UpsertOf(r, oid)
          /\ (Deleted(oid) /\ \E r \in ConcReqs : UpsertOf(r, oid))
                => oid \in DOMAIN db']_vars

\* The session New returned for the cookie of the deleted session is saved
\* and its document exists again.
C21_Witness ==
    /\ Persisting /\ ret.err = NilErr
    /\ ret.pre.isNew
    /\ OidOf(Post.id) = EarlierOid
    /\ EarlierOid \notin DOMAIN ret.db
    /\ EarlierOid \in DOMAIN db

\* C22 as stated: whenever New returns a session with IsNew true, without
\* cookie or on any error path, the session's identifier is the ObjectID
\* generated in that call and not the identifier of the request's cookie.
C22_NewSessionHasFreshID ==
    (NewReturned /\ Post.isNew)
    => /\ Post.id = Hex(gen)
       /\ ret.cookie # <<>> => Post.id # ret.cookie[1].id

\* The default options construction resolved from its arguments.
ResolvedDefaults == NewMongoDBStore(built[1].args, <<>>).store[1].defaultOptions

\* C23: after any sequence of New and Save calls, and whatever a handler
\* assigned to the options of a session New returned, the store's default
\* options are those resolved at construction, and the session New returns
\* has options equal to them, in an Options object of its own.
C23_DefaultsUnchanged ==
    /\ store[1].defaultOptions = ResolvedDefaults
    /\ NewReturned =>
          /\ Post.options = ResolvedDefaults
          /\ Post.optionsOf = "session"

\* A session New returned is saved with max-age changed to log out.
C23_Witness ==
    /\ Terminating /\ ret.err = NilErr
    /\ ret.pre.name = SessionName /\ ret.pre.id.form = "lower"
    /\ ret.pre.options.maxAge = -1
    /\ built[1].args.sessionOptions = <<>>
    /\ ResolvedDefaults.maxAge > 0
    /\ ret.pre.options.path = ResolvedDefaults.path
    /\ ~ret.pre.isNew
    /\ OidOf(ret.pre.id) \in DOMAIN ret.db

\* C24 as stated: for every TTL construction accepts, the default max-age
\* synthesized from it and the expireAfterSeconds of the index provisioned
\* from it are strictly positive and equal to the TTL.
C24_WholeSecondsPositive ==
    (built # <<>> /\ store # <<>>)
    => /\ built[1].args.sessionOptions = <<>> =>
            /\ store[1].defaultOptions.maxAge > 0
            /\ store[1].defaultOptions.maxAge * Second = built[1].args.ttl
       /\ built[1].args.ensureTTLIndex =>
            /\ index # <<>>
            /\ index[1].expireAfterSeconds > 0
            /\ index[1].expireAfterSeconds * Second = built[1].args.ttl

====
